---- MODULE Spec2Model ----
(***************************************************************************)
(* Model of the Recursive Context Processing Engine (maven_mcp/rlm.py):    *)
(* the RLMContext environment, the llm_query invoker, the three processing *)
(* strategies and the rlm_query orchestrator.                              *)
(*                                                                         *)
(* Text is modelled as sequences: a context is a sequence of characters, a *)
(* sub-model response is a sequence of words.  Offsets are 0-based as in   *)
(* Python; sequences are 1-based as in TLA+.                               *)
(***************************************************************************)
EXTENDS Integers, Sequences, FiniteSets, TLC

VARIABLES
    query,         \* rlm_query argument: the query, a sequence of words
    context,       \* rlm_query argument: the context string
    strategy,      \* rlm_query argument: the strategy name
    kwargs,        \* rlm_query **kwargs (record; NoKw marks an absent key)
    max_sub_calls, \* RLM_CONFIG["max_sub_calls"]
    frames,        \* stack of active rlm_query activations (smart nests one)
    calls,         \* every request sent to the sub-model service, in order
    result,        \* what the outermost rlm_query returned (NoResult before)
    escaped,       \* exception that propagated out of the outermost rlm_query
    other,         \* a second rlm_query call, made from another thread, while
                   \* that thread is not the one running (NoOther if none)
    store          \* the files and database rows the tools module keeps
                   \* (NoStore where the tools are not in use)

vars == <<query, context, strategy, kwargs, max_sub_calls, frames, calls,
          result, escaped, other, store>>

----------------------------------------------------------------------------
(* Bounds of the model *)

MaxLen == 3       \* contexts over Alphabet have at most this many characters

MaxPad == 5       \* single-letter contexts have at most this many characters

MaxChunk == 3     \* chunk_size kwarg ranges over 0..MaxChunk

MaxBudget == 2    \* RLM_CONFIG["max_sub_calls"] ranges over 1..MaxBudget (the
                  \* configuration is positive: test_default_config_values)

MaxIter == 2      \* max_iterations kwarg ranges over 0..MaxIter and the default

(* Program constants *)

SEARCH_WINDOW == 250

DEDUP_BUCKET == 1000

SEARCH_MAX_RESULTS == 10

SAMPLE_CAP == 5000

DEFAULT_MAX_ITERATIONS == 10

----------------------------------------------------------------------------
(* Generic helpers *)

Min(a, b) == IF a <= b THEN a ELSE b

Max(a, b) == IF a >= b THEN a ELSE b

MinOf(S) == CHOOSE x \in S : \A y \in S : x <= y

\* Python s[i:j] for 0 <= i (j clamps to len(s))
Slice(s, i, j) == SubSeq(s, i + 1, Min(j, Len(s)))

\* Python s[:j] for any integer j (a negative j counts from the end)
Prefix(s, j) == IF j >= 0 THEN Slice(s, 0, j) ELSE Slice(s, 0, Max(0, Len(s) + j))

RECURSIVE Concat(_)
Concat(ss) == IF ss = <<>> THEN <<>> ELSE Head(ss) \o Concat(Tail(ss))

NoKw == "absent"

\* result before the call has returned
NoResult == [pending |-> TRUE]

NoException == "none"

\* other when a single caller uses the module
NoOther == [id |-> 2, none |-> TRUE]
NoStore == [none |-> TRUE]

MAX_CHUNK_CHARS == 200000

----------------------------------------------------------------------------
(* Text *)

Alphabet == {"a", "B"}

\* str.lower() on one character
Lower(c) == CASE c = "A" -> "a" [] c = "B" -> "b" [] OTHER -> c

\* str.upper() on one word of a response
UpperWord(w) ==
    CASE w = "Search" -> "SEARCH"
      [] w = "iterative" -> "ITERATIVE"
      [] OTHER -> w

Contexts == UNION {[1..n -> Alphabet] : n \in 0..MaxLen}

Padded == {[i \in 1..n |-> "a"] : n \in (MaxLen + 1)..MaxPad}

\* n characters that no pattern and no delimiter of the model contains
Filler(n) == [i \in 1..n |-> "."]

\* contexts longer than two search windows: one occurrence in the middle,
\* one at the very start
LongContexts ==
    { Filler(SEARCH_WINDOW) \o <<"a">> \o Filler(SEARCH_WINDOW),
      <<"B">> \o Filler(2 * SEARCH_WINDOW) \o <<"a", "b">> }

\* needle in text, for a response text (sequence of words)
HasWord(text, needle) == \E i \in 1..Len(text) : text[i] = needle

\* needle in text.upper()
HasWordUpper(text, needle) == \E i \in 1..Len(text) : UpperWord(text[i]) = needle

----------------------------------------------------------------------------
(* RLMContext *)

\* RLMContext(context=...) after __post_init__
NewEnv(ctx) ==
    [context_length |-> Len(ctx), chunks |-> <<>>, chunk_size |-> 0,
     sub_calls |-> <<>>, total_input_tokens |-> 0, total_output_tokens |-> 0]

\* len(range(0, n, step)) for step # 0 and n >= 0
RangeCount(n, step) == IF step > 0 THEN (n + step - 1) \div step ELSE 0

\* Mutant of FixedChunks: only the full-size pieces, the shorter tail is lost
FixedChunksFloor(ctx, cs) ==
    [k \in 1..(IF cs > 0 THEN Len(ctx) \div cs ELSE 0) |->
        Slice(ctx, (k - 1) * cs, (k - 1) * cs + cs)]

\* [context[i:i+chunk_size] for i in range(0, len(context), chunk_size)]
FixedChunks(ctx, cs) ==
    [k \in 1..RangeCount(Len(ctx), cs) |-> Slice(ctx, (k - 1) * cs, (k - 1) * cs + cs)]

\* Mutant of chunk_by_size: a filled cache is returned whatever size it was
\* filled for
chunk_by_size_KeepsCache(env, ctx, cs) ==
    IF env.chunks = <<>>
    THEN IF cs = 0
         THEN [raised |-> "ValueError", ret |-> <<>>,
               env |-> [env EXCEPT !.chunk_size = cs]]
         ELSE [raised |-> NoException, ret |-> FixedChunks(ctx, cs),
               env |-> [env EXCEPT !.chunk_size = cs, !.chunks = FixedChunks(ctx, cs)]]
    ELSE [raised |-> NoException, ret |-> env.chunks, env |-> env]

\* RLMContext.chunk_by_size: the cache is refilled when it is empty or was
\* filled for another size; chunk_size is assigned before the list is built,
\* so range()'s ValueError for a zero step leaves chunk_size overwritten.
chunk_by_size(env, ctx, cs) ==
    IF env.chunks = <<>> \/ env.chunk_size # cs
    THEN IF cs = 0
         THEN [raised |-> "ValueError", ret |-> <<>>,
               env |-> [env EXCEPT !.chunk_size = cs]]
         ELSE [raised |-> NoException, ret |-> FixedChunks(ctx, cs),
               env |-> [env EXCEPT !.chunk_size = cs, !.chunks = FixedChunks(ctx, cs)]]
    ELSE [raised |-> NoException, ret |-> env.chunks, env |-> env]

\* Mutant of OccursAt: the delimiter is compared ignoring case
OccursAtIgnoreCase(ctx, d, s) ==
    /\ s + Len(d) <= Len(ctx)
    /\ \A k \in 1..Len(d) : Lower(ctx[s + k]) = Lower(d[k])

\* the delimiter is found at context[s : s+len(d)]: str.split compares the
\* characters exactly
OccursAt(ctx, d, s) ==
    /\ s + Len(d) <= Len(ctx)
    /\ \A k \in 1..Len(d) : ctx[s + k] = d[k]

\* str.split(d) from offset pos on, for a non-empty d: the text is cut at the
\* leftmost occurrence, and the scan resumes behind it
RECURSIVE split(_, _, _)
split(ctx, d, pos) ==
    LET cands == {s \in pos..Len(ctx) : OccursAt(ctx, d, s)} IN
    IF cands = {} THEN <<Slice(ctx, pos, Len(ctx))>>
    ELSE LET s == MinOf(cands)
         IN <<Slice(ctx, pos, s)>> \o split(ctx, d, s + Len(d))

\* RLMContext.chunk_by_delimiter: str.split raises ValueError("empty
\* separator") for an empty delimiter; the environment is not touched
chunk_by_delimiter(ctx, d) ==
    IF d = <<>>
    THEN [raised |-> "ValueError", ret |-> <<>>]
    ELSE [raised |-> NoException, ret |-> split(ctx, d, 0)]

\* RLMContext.get_stats
get_stats(env) ==
    [context_length |-> env.context_length,
     num_chunks |-> IF env.chunks # <<>> THEN Len(env.chunks) ELSE -1,
     chunk_size |-> env.chunk_size,
     num_sub_calls |-> Len(env.sub_calls),
     total_input_tokens |-> env.total_input_tokens,
     total_output_tokens |-> env.total_output_tokens]

----------------------------------------------------------------------------
(* The sub-model service and the invoker *)

\* What client.messages.create can do with one request: answer, or raise.
Replies ==
    { [ok |-> TRUE, text |-> <<"ok">>, input_tokens |-> 2, output_tokens |-> 1],
      [ok |-> TRUE, text |-> <<"Search", "ANSWER_FOUND">>, input_tokens |-> 3, output_tokens |-> 2],
      [ok |-> TRUE, text |-> <<"iterative">>, input_tokens |-> 1, output_tokens |-> 1] }

Failures ==
    { [ok |-> FALSE, text |-> <<"overloaded">>, input_tokens |-> 0, output_tokens |-> 0] }

Outcomes == Replies \cup Failures

\* f"ERROR: {str(e)}"
ErrorText(msg) == <<"ERROR:">> \o msg

\* The record llm_query appends to rlm_context.sub_calls
SubCallRecord(prompt, o) ==
    [prompt |-> prompt, response |-> o.text,
     input_tokens |-> o.input_tokens, output_tokens |-> o.output_tokens]

\* Mutant of llm_query: the log keeps the latest record only
llm_query_Overwrites(env, prompt, o) ==
    IF o.ok
    THEN [ret |-> o.text,
          env |-> [env EXCEPT !.sub_calls = <<SubCallRecord(prompt, o)>>,
                              !.total_input_tokens = @ + o.input_tokens,
                              !.total_output_tokens = @ + o.output_tokens]]
    ELSE [ret |-> ErrorText(o.text), env |-> env]

\* Mutant of llm_query: the output-token counter is not updated
llm_query_NoOutputTokens(env, prompt, o) ==
    IF o.ok
    THEN [ret |-> o.text,
          env |-> [env EXCEPT !.sub_calls = Append(@, SubCallRecord(prompt, o)),
                              !.total_input_tokens = @ + o.input_tokens]]
    ELSE [ret |-> ErrorText(o.text), env |-> env]

\* llm_query(prompt, rlm_context=env) when the service does o: the record is
\* appended and the counters are updated inside the try block, after the
\* response was read; the except branch only builds the error text.
llm_query(env, prompt, o) ==
    IF o.ok
    THEN [ret |-> o.text,
          env |-> [env EXCEPT !.sub_calls = Append(@, SubCallRecord(prompt, o)),
                              !.total_input_tokens = @ + o.input_tokens,
                              !.total_output_tokens = @ + o.output_tokens]]
    ELSE [ret |-> ErrorText(o.text), env |-> env]

\* One entry of the service-side request log: the prompt sent, what the
\* service did with it, and the rlm_query activation that sent it (1 is the
\* outermost, 2 the one nested by smart) and the caller whose thread is
\* running (1 or 2)
Request(prompt, o, depth) ==
    [prompt |-> prompt, reply |-> o, depth |-> depth, caller |-> 3 - other.id]

----------------------------------------------------------------------------
(* Search *)

\* A pattern is a literal, matched ignoring case; BadRegex does not compile.
BadRegex == <<"(">>

\* the pattern matches context[s : s+len(p)] under re.IGNORECASE
MatchesAt(ctx, p, s) ==
    /\ s + Len(p) <= Len(ctx)
    /\ \A k \in 1..Len(p) : Lower(ctx[s + k]) = Lower(p[k])

\* re.finditer: leftmost non-overlapping matches from offset pos on
RECURSIVE finditer(_, _, _)
finditer(ctx, p, pos) ==
    LET cands == {s \in pos..Len(ctx) : MatchesAt(ctx, p, s)} IN
    IF cands = {} THEN <<>>
    ELSE LET s == MinOf(cands)
             e == s + Len(p)
         IN <<[start |-> s, end |-> e]>> \o finditer(ctx, p, IF e = s THEN e + 1 ELSE e)

\* One hit of RLMContext.search, with its window
Hit(ctx, m) ==
    [match |-> Slice(ctx, m.start, m.end), start |-> m.start, end |-> m.end,
     context |-> Slice(ctx, Max(0, m.start - SEARCH_WINDOW),
                       Min(Len(ctx), m.end + SEARCH_WINDOW))]

\* Mutant of search: the loop never looks at max_results
search_IgnoresLimit(ctx, p, max_results) ==
    LET ms == finditer(ctx, p, 0)
    IN [k \in 1..Len(ms) |-> Hit(ctx, ms[k])]

\* RLMContext.search: the loop stops once max_results hits were collected
search(ctx, p, max_results) ==
    LET ms == finditer(ctx, p, 0)
        n == Min(Len(ms), Max(max_results, 0))
    IN [k \in 1..n |-> Hit(ctx, ms[k])]

\* process_with_search_and_extract, search phase: all hits of all patterns
RECURSIVE SearchAll(_, _)
SearchAll(ctx, patterns) ==
    IF patterns = <<>> THEN <<>>
    ELSE search(ctx, Head(patterns), SEARCH_MAX_RESULTS) \o SearchAll(ctx, Tail(patterns))

\* range_key of a hit
RangeKey(m) == <<m.start \div DEDUP_BUCKET, m.end \div DEDUP_BUCKET>>

\* Mutant of Dedup: the last hit of each range key is the one kept
RECURSIVE DedupKeepsLast(_, _)
DedupKeepsLast(ms, seen) ==
    IF ms = <<>> THEN <<>>
    ELSE IF \E k \in 2..Len(ms) : RangeKey(ms[k]) = RangeKey(Head(ms))
         THEN DedupKeepsLast(Tail(ms), seen)
         ELSE <<Head(ms)>> \o DedupKeepsLast(Tail(ms), seen)

\* process_with_search_and_extract, deduplication loop
RECURSIVE Dedup(_, _)
Dedup(ms, seen) ==
    IF ms = <<>> THEN <<>>
    ELSE IF RangeKey(Head(ms)) \in seen
         THEN Dedup(Tail(ms), seen)
         ELSE <<Head(ms)>> \o Dedup(Tail(ms), seen \cup {RangeKey(Head(ms))})

----------------------------------------------------------------------------
(* rlm_query activations *)

Strategies == {"map_reduce", "search_extract", "iterative", "smart"}

ExceptionClasses == {"ValueError", "KeyError", "IndexError", "re.error", "RuntimeError"}

\* An activation of rlm_query: its locals and those of the strategy it runs
NewFrame(strat, ctx, ts) ==
    [strategy |-> strat, timestamp |-> ts, pc |-> "entry", env |-> NewEnv(ctx),
     chunks |-> <<>>, i |-> 0, acc |-> <<>>, buffer |-> <<>>,
     num_matches |-> 0, unique |-> <<>>, choice |-> <<>>]

Top == frames[Len(frames)]

Running(pcs) == frames # <<>> /\ Top.pc \in pcs

SetTop(f) == [frames EXCEPT ![Len(frames)] = f]

\* kwargs.get("chunk_size", RLM_CONFIG["max_chunk_chars"]): the kwargs record
\* holds the default when the key is absent
ChunkSizeArg == kwargs.chunk_size

\* kwargs.get("max_iterations", 10)
MaxIterationsArg == kwargs.max_iterations

\* str.format on the named template succeeds (the defaults are well formed)
FormatOK(template) == kwargs.bad_prompt # template

\* A filled prompt template
Prompt(template, chunk, num, buffer, parts) ==
    [template |-> template, chunk |-> chunk, num |-> num, buffer |-> buffer,
     parts |-> parts]

\* "Add metadata": the four keys overwrite whatever the result held
StampMeta(f, r) ==
    [query |-> query, context_length |-> Len(context), strategy |-> f.strategy,
     timestamp |-> f.timestamp] @@ r

\* the dict built by rlm_query's except branch
ExceptResult(f, exc) ==
    [success |-> FALSE, error |-> <<exc>>, query |-> query,
     context_length |-> Len(context), strategy |-> f.strategy,
     timestamp |-> f.timestamp]

\* Mutant of Catches: the handler is written for ValueError alone
CatchesValueErrorOnly(exc) == exc = "ValueError"

\* except Exception: which raised classes the orchestrator's handler catches
Catches(exc) == exc \in ExceptionClasses

\* Mutant of Returned: the smart branch hands the nested result on without
\* stamping its own metadata over it
ReturnedUnstamped(r) ==
    IF Len(frames) = 1 THEN r
    ELSE [auto_strategy |-> frames[1].choice] @@ r

\* What the outermost caller gets when the running activation returns r:
\* a nested activation returns into the smart branch of its caller, which
\* attaches auto_strategy, stamps its own metadata and returns in turn.
Returned(r) ==
    IF Len(frames) = 1 THEN r
    ELSE StampMeta(frames[1], [auto_strategy |-> frames[1].choice] @@ r)

\* The running activation returns the strategy's result dict
Finish(body) ==
    /\ frames' = <<>>
    /\ result' = Returned(StampMeta(Top, body))
    /\ escaped' = escaped

\* Mutant of Raise: rlm_query has no except branch
RaiseEscapes(exc) ==
    /\ frames' = <<>>
    /\ result' = result
    /\ escaped' = exc

\* The running activation raises exc inside its try block
Raise(exc) ==
    /\ frames' = <<>>
    /\ IF Catches(exc)
       THEN result' = Returned(ExceptResult(Top, exc)) /\ escaped' = escaped
       ELSE result' = result /\ escaped' = exc

\* what no step of the running call changes: its arguments, the
\* configuration, and the call suspended in the other thread
Inputs == <<query, context, strategy, kwargs, max_sub_calls, other, store>>

----------------------------------------------------------------------------
(* process_with_map_reduce *)

\* rlm_query dispatches to map_reduce; the strategy chunks the context
MR_Enter ==
    /\ Running({"entry"}) /\ Top.strategy = "map_reduce"
    /\ LET c == chunk_by_size(Top.env, context, ChunkSizeArg) IN
       IF c.raised # NoException
       THEN Raise(c.raised)
       ELSE /\ frames' = SetTop([Top EXCEPT !.pc = "mr_map", !.env = c.env,
                                            !.chunks = c.ret])
            /\ UNCHANGED <<result, escaped>>
    /\ UNCHANGED <<Inputs, calls>>

\* Mutant of MapContinues: the map phase gives up after a failed invocation
MapContinuesUntilError(f) ==
    /\ f.i < Len(f.chunks) /\ ~(Len(f.env.sub_calls) >= max_sub_calls)
    /\ IF f.acc = <<>> THEN TRUE
       ELSE IF f.acc[Len(f.acc)].result = <<>> THEN TRUE
       ELSE Head(f.acc[Len(f.acc)].result) # "ERROR:"

\* the loop test and the budget check of the map phase
MapContinues(f) == f.i < Len(f.chunks) /\ ~(Len(f.env.sub_calls) >= max_sub_calls)

MapResult(f, text) ==
    [chunk_num |-> f.i + 1, chunk_start |-> f.i * ChunkSizeArg,
     chunk_end |-> Min((f.i + 1) * ChunkSizeArg, f.env.context_length),
     result |-> text]

\* one iteration of the map loop that issues a call
MR_Map ==
    /\ Running({"mr_map"}) /\ MapContinues(Top)
    /\ IF ~FormatOK("map_prompt")
       THEN Raise("KeyError") /\ UNCHANGED calls
       ELSE \E o \in Outcomes :
              LET p == Prompt("map_prompt", Top.chunks[Top.i + 1], Top.i + 1, <<>>, <<>>)
                  q == llm_query(Top.env, p, o)
              IN /\ calls' = Append(calls, Request(p, o, Len(frames)))
                 /\ frames' = SetTop([Top EXCEPT !.env = q.env, !.i = @ + 1,
                                       !.acc = Append(@, MapResult(Top, q.ret))])
                 /\ UNCHANGED <<result, escaped>>
    /\ UNCHANGED Inputs

\* the map loop ends: chunks exhausted, or the budget check breaks out
MR_MapStop ==
    /\ Running({"mr_map"}) /\ ~MapContinues(Top)
    /\ frames' = SetTop([Top EXCEPT !.pc = "mr_reduce"])
    /\ UNCHANGED <<Inputs, calls, result, escaped>>

\* the reduce phase and the return
MR_Reduce ==
    /\ Running({"mr_reduce"})
    /\ IF ~FormatOK("reduce_prompt")
       THEN Raise("KeyError") /\ UNCHANGED calls
       ELSE \E o \in Outcomes :
              LET p == Prompt("reduce_prompt", <<>>, Len(Top.acc), <<>>, Top.acc)
                  q == llm_query(Top.env, p, o)
              IN /\ calls' = Append(calls, Request(p, o, Len(frames)))
                 /\ Finish([success |-> TRUE, final_answer |-> q.ret,
                            chunk_results |-> Top.acc, stats |-> get_stats(q.env)])
    /\ UNCHANGED Inputs

----------------------------------------------------------------------------
(* process_with_search_and_extract *)

\* kwargs.get("search_patterns", [query.split()[0]])
PatternsArg == IF kwargs.has_patterns THEN kwargs.search_patterns ELSE <<query[1]>>

\* Mutant of ExtractList: every unique match is extracted, whatever the budget
ExtractListAll(f) == f.unique

\* unique_matches[:RLM_CONFIG["max_sub_calls"]]
ExtractList(f) == Prefix(f.unique, max_sub_calls)

\* Mutant of NoMatches: the early return is missing
NoMatchesNever(all) == FALSE

\* if not all_matches
NoMatches(all) == all = <<>>

\* rlm_query dispatches to search_extract: the default pattern is computed
\* even when search_patterns is given; then the search phase, the no-match
\* return and the deduplication
SE_Enter ==
    /\ Running({"entry"}) /\ Top.strategy = "search_extract"
    /\ IF query = <<>>
       THEN Raise("IndexError")
       ELSE IF \E k \in 1..Len(PatternsArg) : PatternsArg[k] = BadRegex
       THEN Raise("re.error")
       ELSE LET all == SearchAll(context, PatternsArg) IN
            IF NoMatches(all)
            THEN Finish([success |-> FALSE, error |-> <<"No matching sections found">>,
                         patterns_tried |-> PatternsArg])
            ELSE /\ frames' = SetTop([Top EXCEPT !.pc = "se_extract",
                                       !.num_matches = Len(all),
                                       !.unique = Dedup(all, {})])
                 /\ UNCHANGED <<result, escaped>>
    /\ UNCHANGED <<Inputs, calls>>

\* one iteration of the extraction loop
SE_Extract ==
    /\ Running({"se_extract"}) /\ Top.i < Len(ExtractList(Top))
    /\ IF ~FormatOK("extraction_prompt")
       THEN Raise("KeyError") /\ UNCHANGED calls
       ELSE \E o \in Outcomes :
              LET m == ExtractList(Top)[Top.i + 1]
                  p == Prompt("extraction_prompt", m.context, m.start, m.match, <<>>)
                  q == llm_query(Top.env, p, o)
              IN /\ calls' = Append(calls, Request(p, o, Len(frames)))
                 /\ frames' = SetTop([Top EXCEPT !.env = q.env, !.i = @ + 1,
                        !.acc = Append(@, [match |-> m.match, position |-> m.start,
                                           extraction |-> q.ret])])
                 /\ UNCHANGED <<result, escaped>>
    /\ UNCHANGED Inputs

\* the synthesis call and the return
SE_Synthesize ==
    /\ Running({"se_extract"}) /\ Top.i >= Len(ExtractList(Top))
    /\ IF ~FormatOK("synthesis_prompt")
       THEN Raise("KeyError") /\ UNCHANGED calls
       ELSE \E o \in Outcomes :
              LET p == Prompt("synthesis_prompt", <<>>, Len(Top.acc), <<>>, Top.acc)
                  q == llm_query(Top.env, p, o)
              IN /\ calls' = Append(calls, Request(p, o, Len(frames)))
                 /\ Finish([success |-> TRUE, final_answer |-> q.ret,
                            extractions |-> Top.acc, num_matches |-> Top.num_matches,
                            num_processed |-> Len(Top.acc), stats |-> get_stats(q.env)])
    /\ UNCHANGED Inputs

----------------------------------------------------------------------------
(* process_iteratively *)

\* Mutant of IterList: max_iterations is ignored
IterListAll(f) == f.chunks

\* chunks[:max_iterations]
IterList(f) == Prefix(f.chunks, MaxIterationsArg)

\* Mutant of IterResult: a run that processed nothing reports no answer
IterResultNoAnswerWhenEmpty(f, buffer, history, env) ==
    IF history = <<>>
    THEN [success |-> TRUE, iterations |-> 0, history |-> history,
          stats |-> get_stats(env)]
    ELSE [success |-> TRUE, final_answer |-> buffer, iterations |-> Len(history),
          history |-> history, stats |-> get_stats(env)]

\* the dict process_iteratively returns
IterResult(f, buffer, history, env) ==
    [success |-> TRUE, final_answer |-> buffer, iterations |-> Len(history),
     history |-> history, stats |-> get_stats(env)]

\* termination_check(result): the default looks for the two markers; a
\* caller-supplied check may answer anything or raise
TerminationChecks == {"default", "never", "always", "raises"}

TerminationCheck(text) ==
    CASE kwargs.termination_check = "default" ->
            HasWord(text, "ANSWER_FOUND") \/ HasWord(text, "FINAL_ANSWER")
      [] kwargs.termination_check = "always" -> TRUE
      [] OTHER -> FALSE

\* rlm_query dispatches to iterative; the strategy chunks the context; with
\* nothing to iterate over it returns at once
IT_Enter ==
    /\ Running({"entry"}) /\ Top.strategy = "iterative"
    /\ LET c == chunk_by_size(Top.env, context, ChunkSizeArg)
           f == [Top EXCEPT !.pc = "it_loop", !.env = c.env, !.chunks = c.ret]
       IN IF c.raised # NoException
          THEN Raise(c.raised)
          ELSE IF IterList(f) = <<>>
          THEN Finish(IterResult(f, <<>>, <<>>, f.env))
          ELSE frames' = SetTop(f) /\ UNCHANGED <<result, escaped>>
    /\ UNCHANGED <<Inputs, calls>>

\* Mutant of IT_Step: the running buffer is never updated
IT_StepStaleBuffer ==
    /\ Running({"it_loop"}) /\ Top.i < Len(IterList(Top))
    /\ LET tpl == IF Top.i = 0 THEN "initial_prompt" ELSE "iteration_prompt" IN
       IF ~FormatOK(tpl)
       THEN Raise("KeyError") /\ UNCHANGED calls
       ELSE \E o \in Outcomes :
              LET chunk == IterList(Top)[Top.i + 1]
                  p == Prompt(tpl, chunk, Top.i + 1, Top.buffer, <<>>)
                  q == llm_query(Top.env, p, o)
                  h == Append(Top.acc, [iteration |-> Top.i + 1,
                                        chunk_preview |-> Prefix(chunk, 100) \o <<"...">>,
                                        result_preview |-> Prefix(q.ret, 200) \o <<"...">>])
              IN /\ calls' = Append(calls, Request(p, o, Len(frames)))
                 /\ IF kwargs.termination_check = "raises"
                    THEN Raise("RuntimeError")
                    ELSE IF TerminationCheck(q.ret) \/ Top.i + 1 >= Len(IterList(Top))
                    THEN Finish(IterResult(Top, q.ret, h, q.env))
                    ELSE /\ frames' = SetTop([Top EXCEPT !.env = q.env, !.i = @ + 1,
                                               !.acc = h])
                         /\ UNCHANGED <<result, escaped>>
    /\ UNCHANGED Inputs

\* one iteration of the loop: the call, the buffer update, the history
\* record, the termination check, and the return when the loop is over
IT_Step ==
    /\ Running({"it_loop"}) /\ Top.i < Len(IterList(Top))
    /\ LET tpl == IF Top.i = 0 THEN "initial_prompt" ELSE "iteration_prompt" IN
       IF ~FormatOK(tpl)
       THEN Raise("KeyError") /\ UNCHANGED calls
       ELSE \E o \in Outcomes :
              LET chunk == IterList(Top)[Top.i + 1]
                  p == Prompt(tpl, chunk, Top.i + 1, Top.buffer, <<>>)
                  q == llm_query(Top.env, p, o)
                  h == Append(Top.acc, [iteration |-> Top.i + 1,
                                        chunk_preview |-> Prefix(chunk, 100) \o <<"...">>,
                                        result_preview |-> Prefix(q.ret, 200) \o <<"...">>])
              IN /\ calls' = Append(calls, Request(p, o, Len(frames)))
                 /\ IF kwargs.termination_check = "raises"
                    THEN Raise("RuntimeError")
                    ELSE IF TerminationCheck(q.ret) \/ Top.i + 1 >= Len(IterList(Top))
                    THEN Finish(IterResult(Top, q.ret, h, q.env))
                    ELSE /\ frames' = SetTop([Top EXCEPT !.env = q.env, !.i = @ + 1,
                                               !.buffer = q.ret, !.acc = h])
                         /\ UNCHANGED <<result, escaped>>
    /\ UNCHANGED Inputs

----------------------------------------------------------------------------
(* smart, and unknown strategies *)

\* sample_size = min(5000, len(context) // 10)
SampleSize(ctx) == Min(SAMPLE_CAP, Len(ctx) \div 10)

\* the three samples; context[-0:] is context[0:]
Samples(ctx) ==
    LET n == SampleSize(ctx)
        mid == Len(ctx) \div 2
    IN << Slice(ctx, 0, n),
          Slice(ctx, mid - n \div 2, mid + n \div 2),
          IF n = 0 THEN ctx ELSE Slice(ctx, Len(ctx) - n, Len(ctx)) >>

\* Mutant of ChosenStrategy: the two tests are made in the other order
ChosenStrategyIterativeFirst(choice) ==
    IF HasWordUpper(choice, "ITERATIVE") THEN "iterative"
    ELSE IF HasWordUpper(choice, "SEARCH") THEN "search_extract"
    ELSE "map_reduce"

\* what the service may do with the analysis prompt: any outcome, or an
\* answer that names two strategies
ClassifierOutcomes ==
    Outcomes \cup
    { [ok |-> TRUE, text |-> <<"iterative", "Search">>, input_tokens |-> 2,
       output_tokens |-> 2] }

\* the strategy the smart branch re-enters rlm_query with
ChosenStrategy(choice) ==
    IF HasWordUpper(choice, "SEARCH") THEN "search_extract"
    ELSE IF HasWordUpper(choice, "ITERATIVE") THEN "iterative"
    ELSE "map_reduce"

\* the smart branch up to the nested rlm_query call
SM_Classify ==
    /\ Running({"entry"}) /\ Top.strategy = "smart"
    /\ \E o \in ClassifierOutcomes :
         LET p == Prompt("analysis_prompt", <<>>, 0, <<>>, Samples(context))
             q == llm_query(Top.env, p, o)
         IN /\ calls' = Append(calls, Request(p, o, Len(frames)))
            /\ frames' = Append(SetTop([Top EXCEPT !.pc = "sm_wait", !.env = q.env,
                                                    !.choice = q.ret]),
                                NewFrame(ChosenStrategy(q.ret), context, Top.timestamp + 1))
    /\ UNCHANGED <<Inputs, result, escaped>>

\* Mutant of Unknown: an unrecognised name falls back to map_reduce
UnknownFallsBack ==
    /\ Running({"entry"}) /\ Top.strategy \notin Strategies
    /\ frames' = SetTop([Top EXCEPT !.strategy = "map_reduce"])
    /\ UNCHANGED <<Inputs, calls, result, escaped>>

\* the else branch of the dispatch
Unknown ==
    /\ Running({"entry"}) /\ Top.strategy \notin Strategies
    /\ Finish([success |-> FALSE,
               error |-> <<"Unknown strategy:", Top.strategy>>])
    /\ UNCHANGED <<Inputs, calls>>

----------------------------------------------------------------------------
(* The calls the model explores *)

ChunkSizeArgs == (0..MaxChunk) \cup {MAX_CHUNK_CHARS}

MaxIterationsArgs == (0..MaxIter) \cup {DEFAULT_MAX_ITERATIONS}

Queries == { <<>>, << <<"A">> >>, << <<"b">>, <<"A">> >> }

PatternLists ==
    { <<>>, << <<"A">> >>, << <<"b">>, <<"A">> >>, << <<"a", "b">> >>, << <<>> >>,
      << BadRegex >> }

\* kwargs with every key absent (each field holds what kwargs.get yields)
KwDefault ==
    [chunk_size |-> MAX_CHUNK_CHARS, max_iterations |-> DEFAULT_MAX_ITERATIONS,
     has_patterns |-> FALSE, search_patterns |-> <<>>,
     termination_check |-> "default", bad_prompt |-> NoKw]

\* the kwargs each strategy reads, varied; the others absent
KwFor(s) ==
    CASE s = "map_reduce" ->
           { [KwDefault EXCEPT !.chunk_size = c, !.bad_prompt = b] :
               c \in ChunkSizeArgs, b \in {NoKw, "map_prompt", "reduce_prompt"} }
      [] s = "search_extract" ->
           { [KwDefault EXCEPT !.bad_prompt = b] :
               b \in {NoKw, "extraction_prompt", "synthesis_prompt"} }
           \cup
           { [KwDefault EXCEPT !.has_patterns = TRUE, !.search_patterns = ps,
                               !.bad_prompt = b] :
               ps \in PatternLists,
               b \in {NoKw, "extraction_prompt", "synthesis_prompt"} }
      [] s = "iterative" ->
           { [KwDefault EXCEPT !.chunk_size = c, !.max_iterations = m,
                               !.termination_check = t, !.bad_prompt = b] :
               c \in ChunkSizeArgs, m \in MaxIterationsArgs, t \in TerminationChecks,
               b \in {NoKw, "initial_prompt", "iteration_prompt"} }
      [] s = "smart" ->
           { [KwDefault EXCEPT !.chunk_size = c, !.max_iterations = m,
                               !.termination_check = t] :
               c \in {0, 1, MAX_CHUNK_CHARS}, m \in {1, DEFAULT_MAX_ITERATIONS},
               t \in {"default", "never"} }
      [] OTHER -> {KwDefault}

\* search_extract reads the query and the characters of the context
QueriesFor(s) == IF s \in {"search_extract", "bogus"} THEN Queries ELSE { << <<"A">> >> }

ContextsFor(s) == IF s \in {"search_extract", "bogus"} THEN Contexts ELSE Contexts \cup Padded

Init ==
    /\ strategy \in Strategies \cup {"bogus"}
    /\ query \in QueriesFor(strategy)
    /\ context \in ContextsFor(strategy)
    /\ kwargs \in KwFor(strategy)
    /\ max_sub_calls \in 1..MaxBudget
    /\ frames = <<NewFrame(strategy, context, 1)>>
    /\ calls = <<>>
    /\ result = NoResult
    /\ escaped = NoException
    /\ other = NoOther
    /\ store = NoStore

Next ==
    \/ MR_Enter
    \/ MR_Map
    \/ MR_MapStop
    \/ MR_Reduce
    \/ SE_Enter
    \/ SE_Extract
    \/ SE_Synthesize
    \/ IT_Enter
    \/ IT_Step
    \/ SM_Classify
    \/ Unknown

Spec == Init /\ [][Next]_vars

----------------------------------------------------------------------------
(* Direct use of one RLMContext and of llm_query, as a client of the module
   (or a test) uses them: any sequence of chunk_by_size and llm_query calls
   on one environment. *)

MaxEnvCalls == 2   \* llm_query calls made on the environment

InitEnv ==
    /\ strategy = "direct"
    /\ query = << <<"A">> >>
    /\ context \in Contexts \cup Padded
    /\ kwargs = KwDefault
    /\ max_sub_calls = MaxBudget     \* not read by the environment
    /\ frames = <<[NewFrame("direct", context, 1) EXCEPT !.pc = "repl"]>>
    /\ calls = <<>>
    /\ result = NoResult
    /\ escaped = NoException
    /\ other = NoOther
    /\ store = NoStore

\* env.chunk_by_size(n); result records the call and what it returned
Env_ChunkBySize ==
    /\ Running({"repl"})
    /\ \E n \in ChunkSizeArgs :
         LET c == chunk_by_size(Top.env, context, n) IN
         /\ frames' = SetTop([Top EXCEPT !.env = c.env])
         /\ result' = [op |-> "chunk_by_size", size |-> n, raised |-> c.raised,
                       ret |-> c.ret]
    /\ UNCHANGED <<Inputs, calls, escaped>>

\* llm_query(prompt, rlm_context=env); result records what it returned
Env_LlmQuery ==
    /\ Running({"repl"}) /\ Len(calls) < MaxEnvCalls
    /\ \E o \in Outcomes :
         LET p == Prompt("direct", <<>>, 0, <<>>, <<>>)
             q == llm_query(Top.env, p, o)
         IN /\ calls' = Append(calls, Request(p, o, Len(frames)))
            /\ frames' = SetTop([Top EXCEPT !.env = q.env])
            /\ result' = [op |-> "llm_query", ret |-> q.ret]
    /\ UNCHANGED <<Inputs, escaped>>

\* env.chunk_by_delimiter(d) for a delimiter among ds; result records the
\* call and what it returned
Env_ChunkByDelimiter(ds) ==
    /\ Running({"repl"})
    /\ \E d \in ds :
         LET c == chunk_by_delimiter(context, d) IN
         result' = [op |-> "chunk_by_delimiter", delimiter |-> d,
                    raised |-> c.raised, ret |-> c.ret]
    /\ UNCHANGED <<Inputs, frames, calls, escaped>>

\* env.search(p, max_results) for a pattern among ps and a limit among ms;
\* re.finditer raises re.error for a pattern that does not compile
Env_Search(ps, ms) ==
    /\ Running({"repl"})
    /\ \E p \in ps, m \in ms :
         result' = [op |-> "search", pattern |-> p, max_results |-> m,
                    raised |-> IF p = BadRegex THEN "re.error" ELSE NoException,
                    ret |-> IF p = BadRegex THEN <<>> ELSE search(context, p, m)]
    /\ UNCHANGED <<Inputs, frames, calls, escaped>>

\* between the stateful calls the client also reads the environment
NextEnv ==
    \/ Env_ChunkBySize
    \/ Env_LlmQuery
    \/ Env_ChunkByDelimiter({ <<"a">> })
    \/ Env_Search({ <<"A">>, BadRegex }, {SEARCH_MAX_RESULTS})

SpecEnv == InitEnv /\ [][NextEnv]_vars

----------------------------------------------------------------------------
(* The read-only operations of one RLMContext, chunk_by_delimiter and search,
   over every delimiter, pattern and limit of the model and over contexts
   that are longer than a search window. *)

MaxDelim == 2      \* delimiters have at most this many characters

MaxResults == 2    \* max_results ranges over 0..MaxResults and the default

\* delimiters handed to chunk_by_delimiter; "b" occurs in no context
Delimiters == UNION {[1..n -> Alphabet \cup {"b"}] : n \in 0..MaxDelim}

\* patterns handed to search; the empty pattern, which matches at every
\* offset, is tried on the short contexts only
SearchPatterns(ctx) ==
    { <<"A">>, <<"b">>, <<"a", "b">>, BadRegex }
    \cup (IF Len(ctx) <= MaxPad THEN { <<>> } ELSE {})

MaxResultsArgs == (0..MaxResults) \cup {SEARCH_MAX_RESULTS}

InitRead ==
    /\ strategy = "direct"
    /\ query = << <<"A">> >>
    /\ context \in Contexts \cup Padded \cup LongContexts
    /\ kwargs = KwDefault
    /\ max_sub_calls = MaxBudget     \* not read by the environment
    /\ frames = <<[NewFrame("direct", context, 1) EXCEPT !.pc = "repl"]>>
    /\ calls = <<>>
    /\ result = NoResult
    /\ escaped = NoException
    /\ other = NoOther
    /\ store = NoStore

NextRead ==
    \/ Env_ChunkByDelimiter(Delimiters)
    \/ Env_Search(SearchPatterns(context), MaxResultsArgs)

SpecRead == InitRead /\ [][NextRead]_vars

----------------------------------------------------------------------------
(* Every use of an environment: inside an rlm_query call, or directly. *)

InitAll == Init \/ InitEnv

NextAll == Next \/ NextEnv

SpecAll == InitAll /\ [][NextAll]_vars

----------------------------------------------------------------------------
(* Two rlm_query calls made from two threads.  Each activation keeps its
   arguments and its locals, timestamp and rlm_ctx among them; the threads
   share the configuration and the sub-model service. *)

\* the caller whose thread is running
Caller == 3 - other.id

\* what the running thread keeps of its call while the other thread runs
Suspended ==
    [id |-> Caller, query |-> query, context |-> context, strategy |-> strategy,
     kwargs |-> kwargs, frames |-> frames, result |-> result, escaped |-> escaped]

\* Mutant of Switch: rlm_ctx is one module-level object, so the thread that
\* resumes works on the environment as the other thread left it
SwitchSharedEnv ==
    /\ "frames" \in DOMAIN other /\ other.frames # <<>>
    /\ query' = other.query /\ context' = other.context
    /\ strategy' = other.strategy /\ kwargs' = other.kwargs
    /\ frames' = IF frames = <<>> THEN other.frames
                 ELSE [other.frames EXCEPT ![Len(other.frames)].env = Top.env]
    /\ result' = other.result /\ escaped' = other.escaped
    /\ other' = Suspended
    /\ UNCHANGED <<max_sub_calls, calls, store>>

\* the interpreter switches to the other thread, whose call has not returned
\* yet: that call goes on with its own arguments and locals
Switch ==
    /\ "frames" \in DOMAIN other /\ other.frames # <<>>
    /\ query' = other.query /\ context' = other.context
    /\ strategy' = other.strategy /\ kwargs' = other.kwargs
    /\ frames' = other.frames
    /\ result' = other.result /\ escaped' = other.escaped
    /\ other' = Suspended
    /\ UNCHANGED <<max_sub_calls, calls, store>>

\* the calls the two threads make, over a two-chunk context: the first
\* thread passes any strategy name, the second one of the two that chunk
PairArgs(ss) ==
    { [query |-> << <<"A">> >>, context |-> <<"a", "B">>, strategy |-> s,
       kwargs |-> [KwDefault EXCEPT !.chunk_size = 1]] : s \in ss }

InitPair ==
    /\ \E a \in PairArgs(Strategies \cup {"bogus"}),
          b \in PairArgs({"map_reduce", "iterative"}) :
         /\ query = a.query /\ context = a.context
         /\ strategy = a.strategy /\ kwargs = a.kwargs
         /\ frames = <<NewFrame(a.strategy, a.context, 1)>>
         /\ other = [id |-> 2, query |-> b.query, context |-> b.context,
                     strategy |-> b.strategy, kwargs |-> b.kwargs,
                     frames |-> <<NewFrame(b.strategy, b.context, 1)>>,
                     result |-> NoResult, escaped |-> NoException]
    /\ max_sub_calls \in 1..MaxBudget
    /\ calls = <<>>
    /\ result = NoResult
    /\ escaped = NoException
    /\ store = NoStore

NextPair == Next \/ Switch

SpecPair == InitPair /\ [][NextPair]_vars

----------------------------------------------------------------------------
(* search_extract over contexts longer than one deduplication bucket, where
   the hits of one run fall into several buckets *)

\* hits at offsets 0, 1, 999 and 1000; hits at 0 and at 1501, 1502
WideContexts ==
    { <<"a", "a">> \o Filler(DEDUP_BUCKET - 3) \o <<"a", "a">>,
      <<"B">> \o Filler(DEDUP_BUCKET + 2 * SEARCH_WINDOW) \o <<"a", "b">> }

WidePatternLists ==
    { << <<"A">> >>, << <<"b">>, <<"A">> >>, << <<"a", "b">> >>,
      << <<"A">>, <<"a">> >> }

InitSearch ==
    /\ strategy = "search_extract"
    /\ query = << <<"A">> >>
    /\ context \in WideContexts
    /\ kwargs \in {KwDefault} \cup
                  { [KwDefault EXCEPT !.has_patterns = TRUE,
                                      !.search_patterns = ps] :
                      ps \in WidePatternLists }
    /\ max_sub_calls \in 1..MaxBudget
    /\ frames = <<NewFrame(strategy, context, 1)>>
    /\ calls = <<>>
    /\ result = NoResult
    /\ escaped = NoException
    /\ other = NoOther
    /\ store = NoStore

NextSearch ==
    \/ SE_Enter
    \/ SE_Extract
    \/ SE_Synthesize

SpecSearch == InitSearch /\ [][NextSearch]_vars

----------------------------------------------------------------------------
(* An rlm_query call whose sub-model invocations need not return.  Every
   sub-call is a blocking request; llm_query passes no timeout to the client
   and RLM_CONFIG["timeout"] is read nowhere, so an invocation that the
   service never answers leaves the call waiting in llm_query. *)

\* the running activation is about to send an invocation
CallPending ==
    \/ Running({"entry"}) /\ Top.strategy = "smart"
    \/ Running({"mr_map"}) /\ MapContinues(Top) /\ FormatOK("map_prompt")
    \/ Running({"mr_reduce"}) /\ FormatOK("reduce_prompt")
    \/ Running({"se_extract"}) /\ Top.i < Len(ExtractList(Top))
          /\ FormatOK("extraction_prompt")
    \/ Running({"se_extract"}) /\ Top.i >= Len(ExtractList(Top))
          /\ FormatOK("synthesis_prompt")
    \/ Running({"it_loop"}) /\ Top.i < Len(IterList(Top))
          /\ FormatOK(IF Top.i = 0 THEN "initial_prompt" ELSE "iteration_prompt")

\* the invocation is sent and neither answered nor failed: the activation
\* stays inside client.messages.create
Hang ==
    /\ CallPending
    /\ frames' = SetTop([Top EXCEPT !.pc = "blocked"])
    /\ UNCHANGED <<Inputs, calls, result, escaped>>

\* the calls followed to their end: every strategy name, an empty context
\* and contexts of two and three characters, one or several chunks, a chunk
\* size that raises
InitLive ==
    /\ Init
    /\ query = << <<"A">> >>
    /\ context \in {<<>>, <<"a", "B">>, <<"B", "a", "B">>}
    /\ kwargs.chunk_size \in {0, 1, MAX_CHUNK_CHARS}
    /\ kwargs.max_iterations = DEFAULT_MAX_ITERATIONS
    /\ kwargs.termination_check \in {"default", "raises"}
    /\ kwargs.bad_prompt \in {NoKw, "reduce_prompt"}
    /\ ~kwargs.has_patterns

NextLive == Next \/ Hang

\* the interpreter runs the call, and every invocation that is not left
\* unanswered returns or fails
SpecLive == InitLive /\ [][NextLive]_vars /\ WF_vars(Next)

----------------------------------------------------------------------------
(* The decision recorder of the tools module: _record_decision over
   identity.json, the decisions directory and the maven_decisions table *)

MaxDecisions == 3   \* record_decision calls made, one after the other
MaxTotal == 1       \* largest total_decisions identity.json starts with

\* what identity.json may be before the first call: absent, not a JSON
\* object, an object without the total_decisions key, or one with it
IdentityFiles ==
    { [exists |-> FALSE, valid |-> TRUE, has_total |-> FALSE,
       total_decisions |-> 0],
      [exists |-> TRUE, valid |-> FALSE, has_total |-> FALSE,
       total_decisions |-> 0],
      [exists |-> TRUE, valid |-> TRUE, has_total |-> FALSE,
       total_decisions |-> 0] }
    \cup { [exists |-> TRUE, valid |-> TRUE, has_total |-> TRUE,
            total_decisions |-> n] : n \in 0..MaxTotal }

\* _get_current_decision_count(): the counter read from the file, 0 when
\* the file is absent, cannot be parsed, or has no such key
get_current_decision_count(st) ==
    IF st.identity.exists /\ st.identity.valid /\ st.identity.has_total
    THEN st.identity.total_decisions
    ELSE 0

\* _update_identity({"total_decisions": total}): loads the file or builds
\* the default identity, merges the update and writes the file back; any
\* exception (the file is not a JSON object, the file cannot be written)
\* is caught and reported as a failure that carries no data
update_identity(st, total) ==
    IF (st.identity.exists /\ ~st.identity.valid) \/ ~st.identity_writable
    THEN [success |-> FALSE, has_data |-> FALSE, total_decisions |-> 0,
          identity |-> st.identity]
    ELSE [success |-> TRUE, has_data |-> TRUE, total_decisions |-> total,
          identity |-> [exists |-> TRUE, valid |-> TRUE, has_total |-> TRUE,
                        total_decisions |-> total]]

\* one _record_decision call at clock second `now`; db_ok says whether the
\* INSERT goes through when the database module is loaded
record_decision(st, now, db_ok) ==
    IF ~st.decisions_writable
    THEN \* open(decision_file, "w") raises: the outer handler answers
         [returned |-> [op |-> "record_decision", success |-> FALSE],
          store |-> [st EXCEPT !.clock = now]]
    ELSE LET upd == update_identity(st, get_current_decision_count(st) + 1)
             persisted == st.db_available /\ db_ok
         IN [returned |->
                [op |-> "record_decision", success |-> TRUE,
                 filename |-> now,
                 total_decisions |->
                     IF upd.has_data THEN upd.total_decisions ELSE 0,
                 db_persisted |-> persisted],
             store |->
                [st EXCEPT !.clock = now,
                           !.decisions = @ \cup {now},
                           !.identity = upd.identity,
                           !.db_rows = IF persisted THEN @ + 1 ELSE @]]

\* a client calls record_decision; the file name has the resolution of a
\* second, so the next call falls in the same second or in a later one
RecordDecision ==
    /\ "log" \in DOMAIN store
    /\ Len(store.log) < MaxDecisions
    /\ \E tick \in 0..1, db_ok \in BOOLEAN :
         LET r == record_decision(store, store.clock + tick, db_ok)
         IN /\ result' = r.returned
            /\ store' = [r.store EXCEPT !.log =
                            Append(@, [before |-> store.identity,
                                       returned |-> r.returned])]
    /\ UNCHANGED <<query, context, strategy, kwargs, max_sub_calls, frames,
                   calls, escaped, other>>

InitTools ==
    /\ strategy = "tools"
    /\ query = <<>>
    /\ context = <<>>
    /\ kwargs = KwDefault
    /\ max_sub_calls = MaxBudget     \* not read by the tools
    /\ frames = <<>>
    /\ calls = <<>>
    /\ result = NoResult
    /\ escaped = NoException
    /\ other = NoOther
    /\ \E id \in IdentityFiles, iw \in BOOLEAN, dw \in BOOLEAN,
          db \in BOOLEAN :
         store = [identity |-> id, identity_writable |-> iw,
                  decisions_writable |-> dw, db_available |-> db,
                  decisions |-> {}, db_rows |-> 0, clock |-> 0,
                  log |-> <<>>]

NextTools == RecordDecision

SpecTools == InitTools /\ [][NextTools]_vars

----------------------------------------------------------------------------
(* Vocabulary of the properties *)

\* the outermost rlm_query is over
Done == frames = <<>>

\* it returned a result dict
HasResult == "success" \in DOMAIN result

\* what llm_query handed back for a logged request
Ret(c) == IF c.reply.ok THEN c.reply.text ELSE ErrorText(c.reply.text)

\* the logged requests built from the given templates, in order
CallsOf(templates) == SelectSeq(calls, LAMBDA c : c.prompt.template \in templates)

MapCalls == CallsOf({"map_prompt"})

MapReduceCalls == CallsOf({"map_prompt", "reduce_prompt"})

SearchExtractCalls == CallsOf({"extraction_prompt", "synthesis_prompt"})

IterCalls == CallsOf({"initial_prompt", "iteration_prompt"})

Templates(cs) == [k \in 1..Len(cs) |-> cs[k].prompt.template]

\* strategy s was run: asked for by the caller, or picked by smart
Ran(s) ==
    \/ strategy = s
    \/ strategy = "smart" /\ calls # <<>> /\ ChosenStrategy(Ret(calls[1])) = s

\* ceil(a / b) for a >= 0, b > 0
CeilDiv(a, b) == CHOOSE q \in 0..a : q * b >= a /\ (q - 1) * b < a

\* number of fixed-size chunks of the context at the chunk_size argument
NumChunks == IF kwargs.chunk_size > 0 THEN CeilDiv(Len(context), kwargs.chunk_size) ELSE 0

\* the caller got the except branch's dict for exception class exc
CaughtAs(exc) ==
    /\ HasResult
    /\ result.success = FALSE
    /\ result.error = <<exc>>
    /\ result.query = query
    /\ result.context_length = Len(context)
    /\ result.strategy = strategy
    /\ "timestamp" \in DOMAIN result

\* pattern p occurs nowhere in ctx, ignoring case
NoHit(ctx, p) ==
    \A s \in 0..Len(ctx) :
        \E k \in 1..Len(p) : s + k > Len(ctx) \/ Lower(ctx[s + k]) # Lower(p[k])

----------------------------------------------------------------------------
(* C1..C10 *)

\* C1: in every state of an rlm_query call, for every strategy, the sub-call
\* log of each environment holds at most max_sub_calls records; the stats
\* snapshot taken at completion shows the log as it was when the strategy
\* returned.
C1_SubCallsWithinBudget ==
    /\ \A k \in 1..Len(frames) : Len(frames[k].env.sub_calls) <= max_sub_calls
    /\ (HasResult /\ "stats" \in DOMAIN result) =>
            result.stats.num_sub_calls <= max_sub_calls

\* C2: rlm_query never lets an exception reach its caller: a bad chunk size,
\* a malformed template, a raising termination check or an empty query in
\* search_extract ends the call with the result success=false, error = the
\* exception text, and the query/context_length/strategy/timestamp metadata.
C2_NeverRaises ==
    /\ escaped = NoException
    /\ Done =>
        /\ HasResult
        /\ (Ran("map_reduce") \/ Ran("iterative")) /\ kwargs.chunk_size = 0
              => CaughtAs("ValueError")
        /\ Ran("search_extract") /\ query = <<>> => CaughtAs("IndexError")
        /\ Ran("iterative") /\ kwargs.termination_check = "raises" /\ IterCalls # <<>>
              => CaughtAs("RuntimeError")
        /\ Ran("map_reduce") /\ kwargs.bad_prompt = "reduce_prompt" /\ kwargs.chunk_size # 0
              => CaughtAs("KeyError")
        /\ Ran("map_reduce") /\ kwargs.bad_prompt = "map_prompt" /\ NumChunks > 0
              => CaughtAs("KeyError")
        /\ Ran("iterative") /\ kwargs.bad_prompt = "initial_prompt"
              /\ NumChunks > 0 /\ kwargs.max_iterations > 0
              => CaughtAs("KeyError")
        /\ result.success = FALSE /\ (\E e \in ExceptionClasses : result.error = <<e>>)
              => CaughtAs(result.error[1])

\* C2 witness: a call that issued requests and then ended in the except branch
C2_Witness == Done /\ calls # <<>> /\ CaughtAs("RuntimeError")

\* C3: an invocation bound to an environment whose service request fails does
\* not raise, returns "ERROR: <message>", and still appends exactly one record
\* to sub_calls: the log holds one record per invocation made.
C3_FailedCallRecorded ==
    /\ Len(Top.env.sub_calls) = Len(calls)
    /\ ("op" \in DOMAIN result /\ result.op = "llm_query"
          /\ ~calls[Len(calls)].reply.ok)
          => result.ret = ErrorText(calls[Len(calls)].reply.text)

\* C4: search-extract whose patterns hit nowhere in the context returns
\* success=false with error "No matching sections found" and sends no request
\* to the sub-model.
C4_NoMatchNoCalls ==
    ( /\ Done /\ Ran("search_extract") /\ query # <<>>
      /\ \A k \in 1..Len(PatternsArg) :
            PatternsArg[k] # BadRegex /\ NoHit(context, PatternsArg[k]) )
    => /\ HasResult
       /\ result.success = FALSE
       /\ result.error = <<"No matching sections found">>
       /\ SearchExtractCalls = <<>>
       /\ "stats" \notin DOMAIN result
       /\ strategy = "search_extract" => calls = <<>>

\* C4 witness: a finished search-extract run whose pattern occurs nowhere
C4_Witness ==
    /\ Done /\ strategy = "search_extract" /\ query # <<>>
    /\ PatternsArg # <<>>
    /\ \A k \in 1..Len(PatternsArg) :
          PatternsArg[k] # BadRegex /\ NoHit(context, PatternsArg[k])

\* C5: rlm_query with a strategy name other than the four known ones returns
\* success=false with an error containing "Unknown strategy" and sends no
\* request to the sub-model.
C5_UnknownStrategy ==
    (Done /\ strategy \notin Strategies)
    => /\ HasResult
       /\ result.success = FALSE
       /\ HasWord(result.error, "Unknown strategy:")
       /\ calls = <<>>

\* C5 witness: a finished call with an unrecognised strategy name
C5_Witness == Done /\ strategy = "bogus" /\ HasResult

\* C6: in a map-reduce run on a fresh environment the map phase halts with
\* chunks remaining exactly when len(sub_calls) = max_sub_calls, and the
\* number of map invocations it issued is min(number of chunks, max_sub_calls).
C6_MapCallsMinChunksBudget ==
    Running({"mr_reduce"}) =>
        /\ Top.i < Len(Top.chunks) => Len(Top.env.sub_calls) = max_sub_calls
        /\ Len(MapCalls) = Min(Len(Top.chunks), max_sub_calls)

\* C7: a map-reduce run issues its map invocations in chunk order and then
\* exactly one reduce invocation as the final call; with N chunks and the
\* budget not reached that is N+1 invocations; with max_sub_calls = 1 over 5
\* chunks exactly 1 map sub-call is recorded, the reduce still goes out
\* (2 invocations in all) and the result has success=true.
C7_MapsThenOneReduce ==
    (Done /\ Ran("map_reduce") /\ HasResult /\ result.success)
    => /\ Templates(MapReduceCalls) =
              [k \in 1..Len(MapCalls) |-> "map_prompt"] \o <<"reduce_prompt">>
       /\ \A k \in 1..Len(MapCalls) : MapCalls[k].prompt.num = k
       /\ NumChunks < max_sub_calls => Len(MapReduceCalls) = NumChunks + 1
       /\ (max_sub_calls = 1 /\ NumChunks = 5)
              => /\ Len(result.chunk_results) = 1
                 /\ Len(MapReduceCalls) = 2

\* C8 as stated: for every context and every chunk_size > 0 that is at least
\* the context length, a map-reduce run performs exactly 2 sub-calls, 1 map
\* followed by 1 reduce.
C8_TwoCallsEveryContext ==
    ( /\ Done /\ Ran("map_reduce") /\ HasResult /\ result.success
      /\ kwargs.chunk_size > 0 /\ kwargs.chunk_size >= Len(context) )
    => Templates(MapReduceCalls) = <<"map_prompt", "reduce_prompt">>

\* C8 amended: for every non-empty context and every chunk_size > 0 that is
\* at least the context length, a map-reduce run that returns its result
\* issues exactly 2 invocations, 1 map followed by 1 reduce.
C8_TwoCallsNonEmptyContext ==
    ( /\ Done /\ Ran("map_reduce") /\ HasResult /\ result.success
      /\ context # <<>>
      /\ kwargs.chunk_size > 0 /\ kwargs.chunk_size >= Len(context) )
    => /\ Templates(MapReduceCalls) = <<"map_prompt", "reduce_prompt">>
       /\ strategy = "map_reduce" => Len(calls) = 2

\* C8 witness: a finished single-chunk map-reduce run over a non-empty context
C8_Witness ==
    /\ Done /\ strategy = "map_reduce" /\ HasResult /\ result.success
    /\ context # <<>>
    /\ kwargs.chunk_size > 0 /\ kwargs.chunk_size >= Len(context)

\* C9: the iterative strategy never issues more than
\* min(max_iterations, number of chunks) invocations, issues none after the
\* first invocation whose result satisfies the termination check, and, in a
\* run that returns its result with the check never satisfied, issues exactly
\* min(max_iterations, number of chunks).
C9_IterationsBounded ==
    LET lim == Min(kwargs.max_iterations, NumChunks) IN
    /\ Len(IterCalls) <= lim
    /\ \A k \in 1..(Len(IterCalls) - 1) : ~TerminationCheck(Ret(IterCalls[k]))
    /\ ( /\ Done /\ Ran("iterative") /\ HasResult /\ result.success
         /\ \A k \in 1..Len(IterCalls) : ~TerminationCheck(Ret(IterCalls[k])) )
       => Len(IterCalls) = lim

\* C9 witness: an iterative run stopped by the termination check with chunks
\* and iterations still left
C9_Witness ==
    /\ Done /\ strategy = "iterative" /\ HasResult /\ result.success
    /\ IterCalls # <<>>
    /\ Len(IterCalls) < Min(kwargs.max_iterations, NumChunks)
    /\ TerminationCheck(Ret(IterCalls[Len(IterCalls)]))

\* C10: for every context C and every size S > 0, chunk_by_size(S) returns
\* ceil(len(C)/S) pieces, each of length S except possibly a shorter last
\* one, whose concatenation in order is C.
C10_ChunkBySize ==
    ("op" \in DOMAIN result /\ result.op = "chunk_by_size" /\ result.size > 0)
    => LET r == result.ret
           S == result.size
       IN /\ result.raised = NoException
          /\ Len(r) = CeilDiv(Len(context), S)
          /\ \A k \in 1..Len(r) :
                /\ Len(r[k]) >= 1 /\ Len(r[k]) <= S
                /\ k < Len(r) => Len(r[k]) = S
                /\ r[k] = SubSeq(context, (k - 1) * S + 1, (k - 1) * S + Len(r[k]))
          /\ Concat(r) = context

\* C10 witness: a chunking into several pieces whose last piece is shorter
C10_Witness ==
    /\ "op" \in DOMAIN result /\ result.op = "chunk_by_size" /\ result.size > 0
    /\ Len(result.ret) >= 2
    /\ Len(result.ret[Len(result.ret)]) < result.size

----------------------------------------------------------------------------
(* C11..C20 *)

\* the last operation made on the environment was op
LastOp(op) == "op" \in DOMAIN result /\ result.op = op

\* d occurs somewhere in text, character for character
Occurs(d, text) ==
    \E s \in 0..(Len(text) - Len(d)) : SubSeq(text, s + 1, s + Len(d)) = d

\* the pieces joined with d between them
RECURSIVE Join(_, _)
Join(d, pieces) ==
    IF pieces = <<>> THEN <<>>
    ELSE IF Len(pieces) = 1 THEN pieces[1]
    ELSE pieces[1] \o d \o Join(d, Tail(pieces))

\* C11: for every context C and every non-empty delimiter D that does not
\* occur adjacent to itself in C, chunk_by_delimiter(D) returns pieces whose
\* join with D is C again, and no piece contains D.
C11_DelimiterRoundTrip ==
    ( /\ LastOp("chunk_by_delimiter") /\ result.delimiter # <<>>
      /\ ~Occurs(result.delimiter \o result.delimiter, context) )
    => /\ result.raised = NoException
       /\ Join(result.delimiter, result.ret) = context
       /\ \A k \in 1..Len(result.ret) : ~Occurs(result.delimiter, result.ret[k])

\* C11 witness: a two-character delimiter that cut the context into several
\* pieces, one of them not empty
C11_Witness ==
    /\ LastOp("chunk_by_delimiter") /\ Len(result.delimiter) = 2
    /\ ~Occurs(result.delimiter \o result.delimiter, context)
    /\ Len(result.ret) >= 2
    /\ \E k \in 1..Len(result.ret) : result.ret[k] # <<>>

\* C12: for every context C and pattern, every hit returned by search has a
\* window of at most 500 characters (twice SEARCH_WINDOW) and offsets with
\* 0 <= start < end <= len(C).
C12_WindowsAndOffsets ==
    (LastOp("search") /\ result.raised = NoException)
    => \A k \in 1..Len(result.ret) :
          /\ Len(result.ret[k].context) <= 2 * SEARCH_WINDOW
          /\ 0 <= result.ret[k].start
          /\ result.ret[k].start < result.ret[k].end
          /\ result.ret[k].end <= Len(context)

\* pattern p matches the context at offset s, ignoring case
MatchesContextAt(p, s) ==
    /\ s + Len(p) <= Len(context)
    /\ \A k \in 1..Len(p) : Lower(context[s + k]) = Lower(p[k])

\* the offset from which the next non-overlapping match is looked for after
\* hit h (one further on after an empty match)
ResumeAfter(h) == IF h.end = h.start THEN h.end + 1 ELSE h.end

\* the offset from which hit k of hits r was looked for
ScanFrom(r, k) == IF k = 1 THEN 0 ELSE ResumeAfter(r[k - 1])

\* C13: search(pattern, max_results) returns the first
\* min(max_results, number of matches) non-overlapping case-insensitive
\* matches of the pattern in increasing offset order; each hit's matched text
\* is context[start:end] and its window contains it.
C13_SearchFirstMatches ==
    (LastOp("search") /\ result.raised = NoException)
    => LET r == result.ret
           p == result.pattern
       IN /\ Len(r) <= result.max_results
          /\ \A k \in 1..Len(r) :
                /\ r[k].start >= ScanFrom(r, k)
                /\ MatchesContextAt(p, r[k].start)
                /\ r[k].end = r[k].start + Len(p)
                /\ \A s \in ScanFrom(r, k)..(r[k].start - 1) : ~MatchesContextAt(p, s)
                /\ r[k].match = SubSeq(context, r[k].start + 1, r[k].end)
                /\ Occurs(r[k].match, r[k].context)
                /\ r[k].context =
                      SubSeq(context, Max(0, r[k].start - SEARCH_WINDOW) + 1,
                             Min(Len(context), r[k].end + SEARCH_WINDOW))
          /\ Len(r) < result.max_results
                => \A s \in ScanFrom(r, Len(r) + 1)..Len(context) : ~MatchesContextAt(p, s)

\* C13 witness: a search cut short by max_results, with a further match left
\* in the context, whose hits differ from the pattern in case
C13_Witness ==
    /\ LastOp("search") /\ result.raised = NoException
    /\ Len(result.ret) = result.max_results /\ Len(result.ret) >= 2
    /\ result.ret[1].match # result.pattern
    /\ \E s \in ScanFrom(result.ret, Len(result.ret) + 1)..Len(context) :
          MatchesContextAt(result.pattern, s)

\* C14: every result rlm_query returns, on every path (success, no match,
\* unknown strategy, caught exception, smart after its nested dispatch),
\* carries query, context_length = len(context), a timestamp, and strategy
\* equal to the strategy argument the caller passed.
C14_MetadataStamped ==
    Done => /\ HasResult
            /\ {"query", "context_length", "strategy", "timestamp"} \subseteq DOMAIN result
            /\ result.query = query
            /\ result.context_length = Len(context)
            /\ result.strategy = strategy

\* C14 witness: a smart call that returned what its nested search-extract
\* dispatch produced
C14_Witness ==
    /\ Done /\ strategy = "smart" /\ HasResult
    /\ "auto_strategy" \in DOMAIN result
    /\ ChosenStrategy(result.auto_strategy) = "search_extract"

\* C15: every result rlm_query returns has final_answer present exactly when
\* success is true and error present exactly when success is false.
C15_AnswerXorError ==
    (Done /\ HasResult)
    => /\ ("final_answer" \in DOMAIN result) <=> (result.success = TRUE)
       /\ ("error" \in DOMAIN result) <=> (result.success = FALSE)

\* C15 witness: a call that failed after it had issued invocations
C15_Witness ==
    /\ Done /\ HasResult /\ result.success = FALSE /\ calls # <<>>
    /\ "error" \in DOMAIN result

\* C16: the sub-call log holds one record per invocation made during the
\* query's lifetime: when rlm_query returns a result with a stats snapshot,
\* stats.num_sub_calls is the number of sub-model invocations issued during
\* that rlm_query call, for every strategy including smart (classification
\* call included) and whether the invocations succeeded or failed.
C16_StatsCountInvocations ==
    (Done /\ HasResult /\ "stats" \in DOMAIN result)
    => result.stats.num_sub_calls = Len(calls)

\* sum of field fld over the records of a sub-call log
RECURSIVE SumOf(_, _)
SumOf(recs, fld) == IF recs = <<>> THEN 0 ELSE Head(recs)[fld] + SumOf(Tail(recs), fld)

\* the counters of every live environment are the sums over its log
TokensMatchLog ==
    \A k \in 1..Len(frames) :
        /\ frames[k].env.total_input_tokens = SumOf(frames[k].env.sub_calls, "input_tokens")
        /\ frames[k].env.total_output_tokens = SumOf(frames[k].env.sub_calls, "output_tokens")

\* no step lowers a counter of an environment that stays live
TokensNonDecreasing ==
    \A k \in 1..Min(Len(frames), Len(frames')) :
        /\ frames'[k].env.total_input_tokens >= frames[k].env.total_input_tokens
        /\ frames'[k].env.total_output_tokens >= frames[k].env.total_output_tokens

\* C17: in every reachable state of an environment total_input_tokens is the
\* sum of the input-token counts of the records in sub_calls and
\* total_output_tokens the sum of their output-token counts, and neither
\* counter ever decreases.
C17_TokenSums == []TokensMatchLog /\ [][TokensNonDecreasing]_vars

\* C17 witness: an environment with two records and one failed invocation
C17_Witness ==
    /\ frames # <<>> /\ Len(Top.env.sub_calls) = 2
    /\ Top.env.total_output_tokens >= 2
    /\ \E k \in 1..Len(calls) : ~calls[k].reply.ok

\* the log and the counters of an environment
Telemetry(env) == <<env.sub_calls, env.total_input_tokens, env.total_output_tokens>>

\* every step leaves the records an environment already holds as they are
\* and adds at most one behind them
LogAppendOnly ==
    \A k \in 1..Min(Len(frames), Len(frames')) :
        /\ Len(frames'[k].env.sub_calls) \in
              {Len(frames[k].env.sub_calls), Len(frames[k].env.sub_calls) + 1}
        /\ SubSeq(frames'[k].env.sub_calls, 1, Len(frames[k].env.sub_calls))
              = frames[k].env.sub_calls

\* a direct chunk_by_size, chunk_by_delimiter or search call, and the
\* chunking or search phase that opens a strategy, leave the log and the
\* counters as they are
ReadsKeepTelemetry ==
    /\ ( /\ Running({"repl"}) /\ frames' # <<>> /\ "op" \in DOMAIN result'
          /\ result'.op \in {"chunk_by_size", "chunk_by_delimiter", "search"} )
        => Telemetry(frames'[1].env) = Telemetry(frames[1].env)
    /\ ( /\ Running({"entry"})
          /\ Top.strategy \in {"map_reduce", "search_extract", "iterative"}
          /\ Len(frames') = Len(frames) )
        => Telemetry(frames'[Len(frames)].env) = Telemetry(Top.env)

\* C18: the sub-call log is append-only and its records are write-once: every
\* operation (invocation, chunking, search, any strategy step) leaves the
\* existing prefix of sub_calls unchanged and adds at most one record at the
\* end; chunking and search leave sub_calls and the token counters unchanged.
C18_LogAppendOnly == [][LogAppendOnly /\ ReadsKeepTelemetry]_vars

\* C18 witness: a search made on an environment that holds two records
C18_Witness ==
    /\ LastOp("search") /\ frames # <<>> /\ Len(Top.env.sub_calls) = 2

\* C19: after any sequence of chunk_by_size calls on one environment (with
\* any sizes, including calls that fail on an invalid size) the cached chunks
\* are never stale: chunks is empty or it is the full fixed-size chunking of
\* the context at the last-requested size; and every successful
\* chunk_by_size(n) returns the chunking for n.
C19_ChunksNeverStale ==
    LastOp("chunk_by_size")
    => /\ \/ Top.env.chunks = <<>>
          \/ /\ result.size > 0
             /\ Top.env.chunks = FixedChunks(context, result.size)
       /\ result.raised = NoException => result.ret = FixedChunks(context, result.size)

\* the requests caller id sent from its activation at depth k that the
\* service answered, in the order sent
OwnAnswered(id, k) ==
    SelectSeq(calls, LAMBDA c : c.caller = id /\ c.depth = k /\ c.reply.ok)

\* the log of each environment of a call holds the records of the answered
\* requests of the activation that constructed it, and nothing else
EnvsHoldOwn(id, fs) ==
    \A k \in 1..Len(fs) :
        fs[k].env.sub_calls =
            [j \in 1..Len(OwnAnswered(id, k)) |->
                SubCallRecord(OwnAnswered(id, k)[j].prompt, OwnAnswered(id, k)[j].reply)]

\* an activation that has sent no request yet has an empty log
FreshWhenEntered(fs) ==
    \A k \in 1..Len(fs) : fs[k].pc = "entry" => fs[k].env.sub_calls = <<>>

\* a map phase that stopped with chunks left had its own answered requests
\* reach the budget
BudgetCountsOwn(id, fs) ==
    \A k \in 1..Len(fs) :
        (fs[k].pc = "mr_reduce" /\ fs[k].i < Len(fs[k].chunks))
        => Len(OwnAnswered(id, k)) >= max_sub_calls

\* the stats a call returned count the records of its own strategy run
StatsCountOwn(id, r) ==
    ("stats" \in DOMAIN r)
    => r.stats.num_sub_calls = Len(OwnAnswered(id, IF r.strategy = "smart" THEN 2 ELSE 1))

\* C20: an environment is never shared between queries: each rlm_query call
\* works on an environment it constructed itself with an empty sub-call log,
\* so for any interleaving of two rlm_query calls no invocation of one call is
\* recorded in, or counted against the budget of, the other call's
\* environment.
C20_EnvironmentsNotShared ==
    ("frames" \in DOMAIN other)
    => /\ EnvsHoldOwn(Caller, frames) /\ EnvsHoldOwn(other.id, other.frames)
       /\ FreshWhenEntered(frames) /\ FreshWhenEntered(other.frames)
       /\ BudgetCountsOwn(Caller, frames) /\ BudgetCountsOwn(other.id, other.frames)
       /\ StatsCountOwn(Caller, result) /\ StatsCountOwn(other.id, other.result)

\* C20 witness: two calls in flight whose answered requests alternate, the
\* second call stopped by the budget
C20_Witness ==
    /\ "frames" \in DOMAIN other /\ frames # <<>> /\ other.frames # <<>>
    /\ Len(calls) >= 3
    /\ calls[1].caller = 1 /\ calls[2].caller = 2 /\ calls[3].caller = 1
    /\ \A k \in 1..3 : calls[k].reply.ok
    /\ \E f \in {frames[Len(frames)], other.frames[Len(other.frames)]} :
          f.pc = "mr_reduce" /\ f.i < Len(f.chunks)

----------------------------------------------------------------------------
(* C21..C30 *)

\* the word occurs in the text whatever its case
NamesStrategy(text, word) == \E i \in 1..Len(text) : UpperWord(text[i]) = word

\* the prompt templates a strategy fills
TemplatesOf(s) ==
    CASE s = "search_extract" -> {"extraction_prompt", "synthesis_prompt"}
      [] s = "iterative" -> {"initial_prompt", "iteration_prompt"}
      [] OTHER -> {"map_prompt", "reduce_prompt"}

\* the strategy the classification text stands for
Classified(text) ==
    IF NamesStrategy(text, "SEARCH") THEN "search_extract"
    ELSE IF NamesStrategy(text, "ITERATIVE") THEN "iterative"
    ELSE "map_reduce"

\* C21: the smart strategy issues exactly one classification invocation
\* before any other invocation, then dispatches exactly one strategy chosen
\* from the response text case-insensitively: search_extract if it contains
\* "SEARCH", otherwise iterative if it contains "ITERATIVE", otherwise
\* map_reduce; the returned result carries the raw classification text as
\* auto_strategy.
C21_SmartDispatch ==
    strategy = "smart"
    => /\ \A k \in 1..Len(calls) :
             (calls[k].prompt.template = "analysis_prompt") <=> (k = 1)
       /\ calls # <<>> =>
             /\ calls[1].depth = 1
             /\ \A k \in 2..Len(calls) :
                   /\ calls[k].depth = 2
                   /\ calls[k].prompt.template \in TemplatesOf(Classified(Ret(calls[1])))
       /\ Len(frames) = 2 =>
             /\ calls # <<>>
             /\ frames[2].strategy = Classified(Ret(calls[1]))
             /\ frames[1].pc = "sm_wait"
       /\ Done =>
             /\ HasResult /\ calls # <<>>
             /\ "auto_strategy" \in DOMAIN result
             /\ result.auto_strategy = Ret(calls[1])
             /\ "chunk_results" \in DOMAIN result => Classified(Ret(calls[1])) = "map_reduce"
             /\ "iterations" \in DOMAIN result => Classified(Ret(calls[1])) = "iterative"
             /\ DOMAIN result \cap {"extractions", "patterns_tried"} # {}
                   => Classified(Ret(calls[1])) = "search_extract"

\* C21 witness: a smart call whose classifier named both ITERATIVE and
\* SEARCH and which returned a search-extract result
C21_Witness ==
    /\ strategy = "smart" /\ Done /\ HasResult /\ result.success
    /\ NamesStrategy(result.auto_strategy, "SEARCH")
    /\ NamesStrategy(result.auto_strategy, "ITERATIVE")
    /\ "extractions" \in DOMAIN result

\* the record_decision calls made so far that answered success
Successes ==
    Cardinality({ i \in 1..Len(store.log) : store.log[i].returned.success })

\* C22: each successful record_decision call increases the stored
\* total_decisions by exactly one and reports the new value: after k
\* successful calls made one after the other on an identity file that held
\* total_decisions = n, the file holds n + k, and the last call, if
\* successful, reported that value.
C22_CounterIncrements ==
    ("log" \in DOMAIN store /\ store.log # <<>>
        /\ store.log[1].before.exists /\ store.log[1].before.valid
        /\ store.log[1].before.has_total)
    => /\ store.identity.exists /\ store.identity.valid
       /\ store.identity.has_total
       /\ store.identity.total_decisions
              = store.log[1].before.total_decisions + Successes
       /\ result.success
              => result.total_decisions = store.identity.total_decisions

\* C23: in a map-reduce run the number of map-phase invocations issued to
\* the sub-model never exceeds max_sub_calls, whatever the sub-model does,
\* runs in which some or all invocations fail included.
C23_MapCallsWithinBudget ==
    Ran("map_reduce") => Len(MapCalls) <= max_sub_calls

\* the hits of the search phase of the call, before deduplication
AllHits == SearchAll(context, PatternsArg)

ExtractionCalls == CallsOf({"extraction_prompt"})

\* C24: a search-extract run with at least one hit that returns its result
\* issued one extraction invocation per unique match, in order, at most
\* max_sub_calls of them, followed by exactly one synthesis invocation as
\* the final call; its result has num_processed equal to the number of
\* extraction invocations, num_matches equal to the number of hits before
\* deduplication, and num_processed <= num_matches.
C24_ExtractionsThenSynthesis ==
    (Done /\ Ran("search_extract") /\ HasResult /\ result.success)
    => LET uniq == Dedup(AllHits, {})
           n == Min(Len(uniq), max_sub_calls)
       IN /\ AllHits # <<>>
          /\ Templates(SearchExtractCalls) =
                 [k \in 1..n |-> "extraction_prompt"] \o <<"synthesis_prompt">>
          /\ \A k \in 1..n :
                 /\ ExtractionCalls[k].prompt.chunk = uniq[k].context
                 /\ ExtractionCalls[k].prompt.buffer = uniq[k].match
          /\ calls[Len(calls)].prompt.template = "synthesis_prompt"
          /\ result.num_processed = Len(ExtractionCalls)
          /\ result.num_matches = Len(AllHits)
          /\ result.num_processed <= result.num_matches

\* C24 witness: a finished run with more unique matches than the budget
\* and more hits than unique matches
C24_Witness ==
    /\ Done /\ strategy = "search_extract" /\ HasResult /\ result.success
    /\ Len(Dedup(AllHits, {})) > max_sub_calls
    /\ Len(AllHits) > Len(Dedup(AllHits, {}))
    /\ result.num_processed = max_sub_calls
    /\ max_sub_calls > 1

\* the window of a hit: [max(0, start - 250), min(len(context), end + 250))
WindowLo(m) == Max(0, m.start - SEARCH_WINDOW)

WindowHi(m) == Min(Len(context), m.end + SEARCH_WINDOW)

\* two windows share at least one character of the context
WindowsOverlap(m1, m2) ==
    /\ WindowLo(m1) < WindowHi(m2)
    /\ WindowLo(m2) < WindowHi(m1)

\* C25: the deduplication of search-extract removes overlapping windows:
\* after it, no two retained matches (and so no two extraction invocations
\* of one run) have overlapping windows of 250 characters on each side.
C25_NoOverlappingWindows ==
    Running({"se_extract"})
    => \A i, j \in 1..Len(Top.unique) :
          i < j => ~WindowsOverlap(Top.unique[i], Top.unique[j])

\* the positions in the hit list whose range key no earlier hit has
FirstOfKey ==
    { i \in 1..Len(AllHits) :
        \A j \in 1..(i - 1) : RangeKey(AllHits[j]) # RangeKey(AllHits[i]) }

\* the k-th smallest of a set of positions
Nth(S, k) == CHOOSE i \in S : Cardinality({ j \in S : j <= i }) = k

\* C26: the deduplication keeps, for each distinct bucket key
\* (start // 1000, end // 1000) among all hits, exactly the first hit with
\* that key in hit order (patterns in the given order, matches by offset),
\* and keeps the kept hits in their relative order; stated of the list of
\* retained matches as the deduplication loop leaves it.
C26_FirstHitPerBucket ==
    (Running({"se_extract"}) /\ Top.i = 0)
    => /\ Top.num_matches = Len(AllHits)
       /\ Len(Top.unique) = Cardinality(FirstOfKey)
       /\ \A k \in 1..Len(Top.unique) :
              Top.unique[k] = AllHits[Nth(FirstOfKey, k)]

\* C26 witness: a run with hits of two patterns in three buckets, five of
\* the eight hits dropped as repeats of a key
C26_Witness ==
    /\ Running({"se_extract"}) /\ Top.i = 0
    /\ Len(PatternsArg) = 2
    /\ Len(AllHits) = 8 /\ Len(Top.unique) = 3

\* C27: in the iterative strategy the first invocation uses the initial
\* prompt over chunk 0, and the k-th invocation (k > 1) uses the iteration
\* prompt filled with the full output of invocation k-1 as buffer and with
\* chunk k-1; the result's iterations is the number of invocations issued
\* and, when at least one ran, final_answer is the output of the last one.
C27_IterativeChain ==
    /\ \A k \in 1..Len(IterCalls) :
          LET p == IterCalls[k].prompt IN
          /\ p.chunk = FixedChunks(context, kwargs.chunk_size)[k]
          /\ p.num = k
          /\ IF k = 1
             THEN p.template = "initial_prompt"
             ELSE /\ p.template = "iteration_prompt"
                  /\ p.buffer = Ret(IterCalls[k - 1])
    /\ (Done /\ Ran("iterative") /\ HasResult /\ result.success)
       => /\ result.iterations = Len(IterCalls)
          /\ IterCalls # <<>>
                => result.final_answer = Ret(IterCalls[Len(IterCalls)])

\* C27 witness: a finished run of three invocations, the second of which
\* failed, so that the third was given the error text as buffer
C27_Witness ==
    /\ Done /\ strategy = "iterative" /\ HasResult /\ result.success
    /\ Len(IterCalls) = 3
    /\ ~IterCalls[2].reply.ok
    /\ IterCalls[3].prompt.buffer = ErrorText(IterCalls[2].reply.text)

\* some map invocation of the call failed
SomeMapFailed == \E k \in 1..Len(MapCalls) : ~MapCalls[k].reply.ok

\* the map invocations the service answered
MapAnswered == SelectSeq(MapCalls, LAMBDA c : c.reply.ok)

\* C28: a failed sub-call does not abort a map-reduce run (one whose prompt
\* templates are well formed): when a map invocation fails, the chunk's
\* result is the text "ERROR: <message>", the loop goes on with the next
\* chunks in order (as far as the budget of answered invocations allows),
\* the reduce invocation is still issued over all the results, and the run
\* returns success=true.
C28_FailedMapDoesNotAbort ==
    ( /\ Done /\ Ran("map_reduce") /\ kwargs.bad_prompt = NoKw
      /\ SomeMapFailed )
    => /\ HasResult /\ result.success
       /\ Len(result.chunk_results) = Len(MapCalls)
       /\ \A k \in 1..Len(MapCalls) :
             /\ MapCalls[k].prompt.num = k
             /\ MapCalls[k].prompt.chunk = FixedChunks(context, kwargs.chunk_size)[k]
             /\ result.chunk_results[k].chunk_num = k
             /\ ~MapCalls[k].reply.ok
                   => /\ result.chunk_results[k].result
                            = <<"ERROR:">> \o MapCalls[k].reply.text
                      /\ k < NumChunks => Len(MapCalls) > k
             /\ MapCalls[k].reply.ok
                   => result.chunk_results[k].result = MapCalls[k].reply.text
       /\ Len(MapAnswered) < max_sub_calls => Len(MapCalls) = NumChunks
       /\ Templates(MapReduceCalls) =
              [k \in 1..Len(MapCalls) |-> "map_prompt"] \o <<"reduce_prompt">>
       /\ MapReduceCalls[Len(MapReduceCalls)].prompt.parts = result.chunk_results

\* C28 witness: a finished run over three chunks or more whose first map
\* invocation failed and whose last one was answered
C28_Witness ==
    /\ Done /\ strategy = "map_reduce" /\ HasResult /\ result.success
    /\ Len(MapCalls) >= 3
    /\ ~MapCalls[1].reply.ok
    /\ MapCalls[Len(MapCalls)].reply.ok
    /\ result.chunk_results[1].result = <<"ERROR:">> \o MapCalls[1].reply.text

\* C29: for every context length, lengths below 10 included, each of the
\* three samples (beginning, middle, end) the smart strategy puts into its
\* analysis prompt has length at most min(5000, len(context) // 10).
C29_SamplesWithinSize ==
    (calls # <<>> /\ calls[1].prompt.template = "analysis_prompt")
    => \A i \in 1..3 :
          Len(calls[1].prompt.parts[i]) <= Min(SAMPLE_CAP, Len(context) \div 10)

\* an invocation of the call was left unanswered
Hung == frames # <<>> /\ Top.pc = "blocked"

\* each strategy loop is bounded by the number of chunks or of hits, and
\* smart re-enters rlm_query once, with a strategy other than smart
LoopsBounded ==
    /\ Len(MapCalls) <= NumChunks
    /\ Len(IterCalls) <= NumChunks
    /\ ExtractionCalls # <<>> => Len(ExtractionCalls) <= Len(AllHits)
    /\ Len(CallsOf({"reduce_prompt", "synthesis_prompt", "analysis_prompt"})) <= 2
    /\ Len(CallsOf({"analysis_prompt"})) <= 1
    /\ Len(frames) <= 2
    /\ Len(frames) = 2
          => /\ strategy = "smart" /\ frames[1].strategy = "smart"
             /\ frames[2].strategy \in Strategies \ {"smart"}

\* C30: if every sub-model invocation eventually returns or fails, every
\* rlm_query call eventually returns a result: each strategy loop is bounded
\* by the number of chunks or matches, and smart re-enters rlm_query exactly
\* once with a strategy other than smart; an invocation that never returns
\* keeps the query from ever completing, since no timeout or cancellation
\* is applied.
C30_ReturnsUnlessHung ==
    /\ <>(Hung \/ (Done /\ HasResult))
    /\ [](LoopsBounded /\ (Hung => ~Done))
    /\ [][Hung => Hung']_vars

\* C30 witness: a smart call that returned its result after the
\* classification and three invocations or more of the strategy it chose
C30_Witness ==
    /\ Done /\ HasResult /\ strategy = "smart"
    /\ Len(calls) >= 4
    /\ result.success

====
